---- MODULE Spec2Model ----
(***************************************************************************)
(* A model of lazymath/lazyclasses.py: the Lazy expression nodes (LazyVal, *)
(* LazySum, LazyProd, LazyNeg, LazyFunc), their memoised eval(), the       *)
(* operators that compose them and Python's binary-operator dispatch.      *)
(*                                                                         *)
(* Python objects are records [t, v]: t is the type of the object and v    *)
(* its payload (the integer, or the index in the heap of a Lazy node).     *)
(* An exception that propagates out of a call is the record whose t is     *)
(* the exception's class.                                                  *)
(***************************************************************************)
EXTENDS Integers, Sequences, FiniteSets, TLC

\* ------------------------------------------------------------------ bounds
\* Lazy nodes ever constructed.
MaxNodes == 2
\* calculate() invocations of one node before the caller stops forcing.
MaxCalls == 2
\* Arguments of one LazySum(...) or LazyProd(...) constructor call.
MaxTerms == 2
\* The integers of the arithmetic checks are -MaxAbs..MaxAbs.
MaxAbs == 2

\* The most nodes one operator constructs: LazySum(other, LazyNeg(self)) with
\* a raw other is a LazyNeg, a LazyVal and a LazySum.
OperatorNodes == 3

\* The raw values a caller passes in, and the callables it wraps.
RawInts == {-1, 2}
Funcs == {"super_slow_function", "checked", "sentinel"}

VARIABLES
    heap,    \* the Lazy objects alive, by identity (index): their slots
    calls,   \* per node: how many times its calculate() was invoked
    fcalls,  \* per node: how many times its wrapped callable was invoked
    fargs,   \* per node: the arguments of the wrapped callable's last invocation
    rets,    \* per node: the values its eval() has returned
    raised,  \* the class of the exception last raised, where it was raised
    last,    \* the caller's last operation: its operands and its result
    prog     \* the caller's program, when it is a fixed one: its place and locals

vars == <<heap, calls, fcalls, fargs, rets, raised, last, prog>>

\* ----------------------------------------------------------------- objects
PyInt(n) == [t |-> "int", v |-> n]
Bool(b) == [t |-> "bool", v |-> IF b THEN 1 ELSE 0]
Str == [t |-> "str", v |-> 0]
None == [t |-> "None", v |-> 0]
Lazy(i) == [t |-> "lazy", v |-> i]
NotEvaluated == [t |-> "NotEvaluated", v |-> 0]
NotImplemented == [t |-> "NotImplemented", v |-> 0]
Exc(cls) == [t |-> cls, v |-> 0]

IsLazy(o) == o.t = "lazy"
IsExc(o) == o.t \in {"TypeError", "ValueError"}
IsNotEvaluatedType(o) == o.t = "NotEvaluated"

\* An operator that runs code returns the machine it leaves and its result.
Ret(m, r) == [m |-> m, r |-> r]

NoCall == [args |-> <<>>, kwargs |-> <<>>]
NoRaise == [by |-> 0, cls |-> "None"]

Raise(m, i, cls) == Ret([m EXCEPT !.raised = [by |-> i, cls |-> cls]], Exc(cls))

\* ------------------------------------------------------------ constructors
NewNode(m, node) ==
    Ret([m EXCEPT !.heap = Append(@, node),
                  !.calls = Append(@, 0),
                  !.fcalls = Append(@, 0),
                  !.fargs = Append(@, NoCall),
                  !.rets = Append(@, {})],
        Lazy(Len(m.heap) + 1))

Slots(kind, value, terms, arg, func, args, kwargs) ==
    [kind |-> kind, _value |-> value, _terms |-> terms, _arg |-> arg,
     func |-> func, _args |-> args, _kwargs |-> kwargs]

LazyAbstract_init == NotEvaluated

LazyVal_init(m, value) ==
    NewNode(m, Slots("LazyVal", value, <<>>, None, "", <<>>, <<>>))

\* A constructor that stores its arguments as they come.
WrapTerm_unwrapped(m, x) == Ret(m, x)

\* lambda x: x if isinstance(x, LazyAbstract) else LazyVal(x)
WrapTerm(m, x) == IF IsLazy(x) THEN Ret(m, x) ELSE LazyVal_init(m, x)

RECURSIVE WrapTerms(_, _, _)
WrapTerms(m, args, done) ==
    IF Len(done) = Len(args) THEN Ret(m, done)
    ELSE LET w == WrapTerm(m, args[Len(done) + 1])
         IN WrapTerms(w.m, args, Append(done, w.r))

LazySum_init(m, args) ==
    LET w == WrapTerms(m, args, <<>>)
    IN NewNode(w.m, Slots("LazySum", LazyAbstract_init, w.r, None, "", <<>>, <<>>))

LazyProd_init(m, args) ==
    LET w == WrapTerms(m, args, <<>>)
    IN NewNode(w.m, Slots("LazyProd", LazyAbstract_init, w.r, None, "", <<>>, <<>>))

LazyNeg_init(m, arg) ==
    NewNode(m, Slots("LazyNeg", LazyAbstract_init, <<>>, arg, "", <<>>, <<>>))

LazyFunc_init(m, func, args, kwargs) ==
    NewNode(m, Slots("LazyFunc", LazyAbstract_init, <<>>, None, func, args, kwargs))

\* ------------------------------------------------------- value arithmetic
\* int + int; no other pair of values defines __add__ / __radd__.
ValAdd(a, b) ==
    IF a.t = "int" /\ b.t = "int" THEN PyInt(a.v + b.v) ELSE Exc("TypeError")

ValMul(a, b) ==
    IF a.t = "int" /\ b.t = "int" THEN PyInt(a.v * b.v) ELSE Exc("TypeError")

\* ==  on two values: integers by value, anything else by identity.
ValEq(a, b) ==
    IF a.t = "int" /\ b.t = "int" THEN a.v = b.v ELSE a = b

\* The wrapped callables, each of one parameter x.
CallBody(func, x) ==
    CASE func = "super_slow_function" -> ValMul(x, PyInt(2))
      [] func = "checked" ->
            IF x.t # "int" THEN Exc("TypeError")
            ELSE IF x.v < 0 THEN Exc("ValueError") ELSE x
      [] OTHER -> NotEvaluated

\* func(*args, **kwargs): the binding of the one parameter, then the body.
Call(func, args, kwargs) ==
    IF Len(args) = 1 /\ Len(kwargs) = 0 THEN CallBody(func, args[1])
    ELSE IF Len(args) = 0 /\ Len(kwargs) = 1 /\ kwargs[1].k = "x"
         THEN CallBody(func, kwargs[1].v)
    ELSE Exc("TypeError")

\* -------------------------------------------------------------- evaluation
RECURSIVE eval(_, _)
RECURSIVE calculate(_, _)
RECURSIVE Fold(_, _, _, _, _, _)

\* eval() when the cache is set: return self._value
Cached(m, i) ==
    Ret([m EXCEPT !.rets[i] = @ \cup {m.heap[i]._value}], m.heap[i]._value)

\* eval() after calculate() ended as c: an exception passes through and
\* leaves the cache as it was; a value is stored in the cache and returned.
Evaluated(c, i) ==
    IF IsExc(c.r) THEN c
    ELSE Ret([c.m EXCEPT !.heap[i]._value = c.r, !.rets[i] = @ \cup {c.r}], c.r)

\* An eval() that catches what calculate() raises, caches None and reports a
\* failure of its own.
Caught(c, i) ==
    IF IsExc(c.r)
    THEN Ret([c.m EXCEPT !.heap[i]._value = None], Exc("TypeError"))
    ELSE Ret([c.m EXCEPT !.heap[i]._value = c.r, !.rets[i] = @ \cup {c.r}], c.r)

\* An eval() that does not look at the cache.
eval_uncached(m, i) == Evaluated(calculate(m, i), i)

eval_catching(m, i) ==
    IF IsNotEvaluatedType(m.heap[i]._value)
    THEN Caught(calculate(m, i), i)
    ELSE Cached(m, i)

\* LazyAbstract.eval
eval(m, i) ==
    IF IsNotEvaluatedType(m.heap[i]._value)
    THEN Evaluated(calculate(m, i), i)
    ELSE Cached(m, i)

\* A _calculate that passes a node on as it is.
Resolve_unevaluated(m, value) == Ret(m, value)

\* _calculate
Resolve(m, value) == IF IsLazy(value) THEN eval(m, value.v) ELSE Ret(m, value)

\* -v for a value: int.__neg__, NotEvaluatedType.__neg__
ValNeg(v) ==
    IF v.t = "int" THEN PyInt(-v.v)
    ELSE IF IsNotEvaluatedType(v) THEN v
    ELSE Exc("TypeError")

\* -value once the operand is evaluated (e)
Negated(e, i) ==
    IF IsExc(e.r) THEN e
    ELSE IF IsExc(ValNeg(e.r)) THEN Raise(e.m, i, "TypeError")
    ELSE Ret(e.m, ValNeg(e.r))

\* -o where o is the object held by node i, or an operand of the caller
\* (i = 0); for a node LazyAbstract.__neg__: -self.eval()
neg(m, i, o) ==
    IF IsLazy(o) THEN Negated(eval(m, o.v), i) ELSE Negated(Ret(m, o), i)

\* One step of an iteration over evaluated items: what sum() and prod() do
\* with the next term, and what collecting the arguments of the call does
\* with the next argument. acc.r is the running result, acc.vals the values
\* collected.
Step(how, acc, v) ==
    CASE how = "sum" -> [r |-> ValAdd(acc.r, v), vals |-> acc.vals]
      [] how = "prod" -> [r |-> ValMul(acc.r, v), vals |-> acc.vals]
      [] OTHER -> [r |-> None, vals |-> Append(acc.vals, v)]

\* The iteration after the step on item k gave s: an exception of the step
\* ends it, otherwise it goes on with the next item.
FoldStep(m, i, how, items, k, s) ==
    IF IsExc(s.r)
    THEN [m |-> Raise(m, i, s.r.t).m, r |-> s.r, vals |-> s.vals]
    ELSE Fold(m, i, how, items, k + 1, s)

\* The iteration after item k was evaluated (e): an exception of the
\* evaluation ends it, otherwise the step is taken.
FoldItem(e, i, how, items, k, acc) ==
    IF IsExc(e.r) THEN [m |-> e.m, r |-> e.r, vals |-> acc.vals]
    ELSE FoldStep(e.m, i, how, items, k, Step(how, acc, e.r))

\* The evaluation of one item: x.eval() for a term, _calculate(x) for an
\* argument.
Item(m, how, x) == IF how = "args" THEN Resolve(m, x) ELSE eval(m, x.v)

\* The iterations of the calculate() methods, each over a map() that
\* evaluates one item at a time:
\*   sum(map(lambda x: x.eval(), self._terms))    from 0
\*   prod(map(lambda x: x.eval(), self._terms))   from 1
\*   {k: _calculate(v) ...} and map(_calculate, self._args)
Fold(m, i, how, items, k, acc) ==
    IF k > Len(items) THEN [m |-> m, r |-> acc.r, vals |-> acc.vals]
    ELSE FoldItem(Item(m, how, items[k]), i, how, items, k, acc)

\* func(*calculated_args, **calculated_kwargs) ended as r
Called(m, i, r) == IF IsExc(r) THEN Raise(m, i, r.t) ELSE Ret(m, r)

\* LazyFunc.calculate, from the resolved arguments on: the keyword arguments
\* were resolved first (by the dict comprehension), the positional ones after
\* them (when the call unpacks the map); then func is called.
LazyFunc_call(f, i, node) ==
    LET nkw == Len(node._kwargs)
        kwargs == [k \in 1..nkw |-> [k |-> node._kwargs[k].k, v |-> f.vals[k]]]
        args == [k \in 1..Len(node._args) |-> f.vals[nkw + k]]
    IN Called([f.m EXCEPT !.fcalls[i] = @ + 1,
                          !.fargs[i] = [args |-> args, kwargs |-> kwargs]],
              i, Call(node.func, args, kwargs))

\* What the calculate() of the node's class iterates over, and how.
Items(node) ==
    CASE node.kind \in {"LazySum", "LazyProd"} -> node._terms
      [] node.kind = "LazyFunc" ->
            [k \in 1..Len(node._kwargs) |-> node._kwargs[k].v] \o node._args
      [] OTHER -> <<>>

How(node) ==
    CASE node.kind = "LazySum" -> "sum"
      [] node.kind = "LazyProd" -> "prod"
      [] OTHER -> "args"

Start(node) ==
    CASE node.kind = "LazySum" -> [r |-> PyInt(0), vals |-> <<>>]
      [] node.kind = "LazyProd" -> [r |-> PyInt(1), vals |-> <<>>]
      [] OTHER -> [r |-> None, vals |-> <<>>]

\* calculate() once its iteration ended as f: LazyFunc goes on to the call.
Iterated(f, i, node) ==
    IF node.kind = "LazyFunc" /\ ~IsExc(f.r) THEN LazyFunc_call(f, i, node)
    ELSE Ret(f.m, f.r)

\* The calculate() of the class of node i, counted in calls[i]:
\*   LazyVal   return self._value
\*   LazySum   return sum(map(lambda x: x.eval(), self._terms))
\*   LazyProd  return prod(map(lambda x: x.eval(), self._terms))
\*   LazyNeg   return -self._arg
\*   LazyFunc  return func(*calculated_args, **calculated_kwargs)
Calculate(m, i, node) ==
    IF node.kind = "LazyVal" THEN Ret(m, node._value)
    ELSE IF node.kind = "LazyNeg" THEN neg(m, i, node._arg)
    ELSE Iterated(Fold(m, i, How(node), Items(node), 1, Start(node)), i, node)

calculate(m, i) == Calculate([m EXCEPT !.calls[i] = @ + 1], i, m.heap[i])

\* ---------------------------------------------------------------- operators
\* type(o): every LazyFuncFactory(func) is a class of its own.
TypeOf(m, o) ==
    IF ~IsLazy(o) THEN o.t
    ELSE IF m.heap[o.v].kind = "LazyFunc" THEN m.heap[o.v].func
    ELSE m.heap[o.v].kind

IsInstance(m, o, kind) == IsLazy(o) /\ m.heap[o.v].kind = kind

LazyAbstract_add(m, self, other) ==
    IF ~IsLazy(other) THEN LazySum_init(m, <<self, other>>)
    ELSE Ret(m, NotImplemented)

LazyAbstract_radd(m, self, other) == LazySum_init(m, <<other, self>>)

LazyAbstract_sub(m, self, other) ==
    IF ~IsLazy(other)
    THEN LET n == LazyNeg_init(m, other) IN LazySum_init(n.m, <<self, n.r>>)
    ELSE Ret(m, NotImplemented)

\* An __rsub__ that forgets the negation.
LazyAbstract_rsub_plain(m, self, other) == LazySum_init(m, <<other, self>>)

LazyAbstract_rsub(m, self, other) ==
    LET n == LazyNeg_init(m, self) IN LazySum_init(n.m, <<other, n.r>>)

LazyAbstract_mul(m, self, other) ==
    IF ~IsLazy(other) THEN LazyProd_init(m, <<self, other>>)
    ELSE Ret(m, NotImplemented)

LazyAbstract_rmul(m, self, other) == LazyProd_init(m, <<other, self>>)

LazySum_add(m, self, other) ==
    IF IsInstance(m, other, "LazySum")
    THEN LazySum_init(m, m.heap[self.v]._terms \o m.heap[other.v]._terms)
    ELSE IF IsLazy(other)
    THEN LazySum_init(m, Append(m.heap[self.v]._terms, other))
    ELSE LET v == LazyVal_init(m, other)
         IN LazySum_init(v.m, Append(m.heap[self.v]._terms, v.r))

LazyProd_mul(m, self, other) ==
    IF IsInstance(m, other, "LazyProd")
    THEN LazyProd_init(m, m.heap[self.v]._terms \o m.heap[other.v]._terms)
    ELSE IF IsLazy(other)
    THEN LazyProd_init(m, Append(m.heap[self.v]._terms, other))
    ELSE LET v == LazyVal_init(m, other)
         IN LazyProd_init(v.m, Append(m.heap[self.v]._terms, v.r))

\* type(self).__add__ / __sub__ / __mul__ of a Lazy self
Forward(m, op, self, other) ==
    CASE op = "+" -> IF IsInstance(m, self, "LazySum")
                     THEN LazySum_add(m, self, other)
                     ELSE LazyAbstract_add(m, self, other)
      [] op = "-" -> LazyAbstract_sub(m, self, other)
      [] OTHER -> IF IsInstance(m, self, "LazyProd")
                  THEN LazyProd_mul(m, self, other)
                  ELSE LazyAbstract_mul(m, self, other)

\* type(self).__radd__ / __rsub__ / __rmul__ of a Lazy self
Reflected(m, op, self, other) ==
    CASE op = "+" -> LazyAbstract_radd(m, self, other)
      [] op = "-" -> LazyAbstract_rsub(m, self, other)
      [] OTHER -> LazyAbstract_rmul(m, self, other)

\* a op b as the interpreter dispatches it: the left operand's method, then,
\* when that returns NotImplemented and the operands' types differ, the right
\* operand's reflected method; TypeError when neither answers. (int's own
\* method returns NotImplemented for a Lazy operand.)
BinaryOp(m, op, a, b) ==
    LET f == IF IsLazy(a) THEN Forward(m, op, a, b) ELSE Ret(m, NotImplemented)
    IN IF f.r # NotImplemented THEN f
       ELSE IF IsLazy(b) /\ TypeOf(m, a) # TypeOf(m, b) THEN Reflected(m, op, b, a)
       ELSE Raise(m, 0, "TypeError")

\* The comparison once both sides are evaluated (e, then o): eq tells == from !=
Compared(e, o, eq) ==
    IF IsExc(o.r) THEN o ELSE Ret(o.m, Bool(ValEq(e.r, o.r) = eq))

\* self.eval() == _calculate(other), self.eval() != _calculate(other)
CompareValue(e, other, eq) ==
    IF IsExc(e.r) THEN e
    ELSE IF IsLazy(other) THEN Compared(e, eval(e.m, other.v), eq)
    ELSE Compared(e, Ret(e.m, other), eq)

\* An __eq__ without the identity test.
LazyAbstract_eq_by_value(m, self, other) ==
    CompareValue(eval(m, self.v), other, TRUE)

\* LazyAbstract.__eq__
LazyAbstract_eq(m, self, other) ==
    IF self = other THEN Ret(m, Bool(TRUE))
    ELSE CompareValue(eval(m, self.v), other, TRUE)

\* LazyAbstract.__ne__
LazyAbstract_ne(m, self, other) ==
    IF self = other THEN Ret(m, Bool(FALSE))
    ELSE CompareValue(eval(m, self.v), other, FALSE)

\* a == b, a != b: the left operand's method, or for an int on the left (whose
\* method returns NotImplemented) the right operand's.
Compare(m, op, a, b) ==
    LET self == IF IsLazy(a) THEN a ELSE b
        other == IF IsLazy(a) THEN b ELSE a
    IN IF op = "==" THEN LazyAbstract_eq(m, self, other)
       ELSE LazyAbstract_ne(m, self, other)

\* LazyAbstract.__str__
Stringified(e) == IF IsExc(e.r) THEN e ELSE Ret(e.m, Str)

LazyAbstract_str(m, i) == Stringified(eval(m, i))

RECURSIVE repr(_, _)
RECURSIVE ReprAll(_, _, _)

\* str() of a tuple or a dict: the repr() of each item
ReprAll(m, items, k) ==
    IF k > Len(items) THEN Ret(m, Str)
    ELSE LET r == repr(m, items[k])
         IN IF IsExc(r.r) THEN r ELSE ReprAll(r.m, items, k + 1)

\* repr(o): the __repr__ of each class
repr(m, o) ==
    IF ~IsLazy(o) THEN Ret(m, Str)
    ELSE LET node == m.heap[o.v]
         IN CASE node.kind = "LazyVal" -> Ret(m, Str)
              [] node.kind \in {"LazySum", "LazyProd"} -> ReprAll(m, node._terms, 1)
              [] node.kind = "LazyNeg" ->
                    IF IsLazy(node._arg) THEN LazyAbstract_str(m, node._arg.v)
                    ELSE Ret(m, Str)
              [] OTHER ->
                    LET a == ReprAll(m, node._args, 1)
                    IN IF IsExc(a.r) THEN a
                       ELSE ReprAll(a.m, [k \in 1..Len(node._kwargs) |->
                                             node._kwargs[k].v], 1)

\* ------------------------------------------------------------------ machine
Machine ==
    [heap |-> heap, calls |-> calls, fcalls |-> fcalls, fargs |-> fargs,
     rets |-> rets, raised |-> raised]

Nodes == 1..Len(heap)
Raws == {PyInt(n) : n \in RawInts}
Lazies == {Lazy(i) : i \in Nodes}
Operands == Raws \cup Lazies
Terms == UNION {[1..n -> Operands] : n \in 0..MaxTerms}

Install(m, limit) ==
    /\ Len(m.heap) <= limit
    /\ heap' = m.heap
    /\ calls' = m.calls
    /\ fcalls' = m.fcalls
    /\ fargs' = m.fargs
    /\ rets' = m.rets
    /\ raised' = m.raised

Op(name, a, b, r) == [op |-> name, a |-> a, b |-> b, r |-> r]

Idle == [pc |-> "idle"]

\* The caller stops forcing once some calculate() has run MaxCalls times.
MayForce == \A i \in Nodes : calls[i] < MaxCalls

Empty ==
    /\ heap = <<>>
    /\ calls = <<>>
    /\ fcalls = <<>>
    /\ fargs = <<>>
    /\ rets = <<>>
    /\ raised = NoRaise
    /\ last = Op("init", None, None, None)

Init == Empty /\ prog = Idle

\* LazyVal(x)
NewVal ==
    /\ Len(heap) < MaxNodes
    /\ \E x \in Raws :
        LET c == LazyVal_init(Machine, x)
        IN Install(c.m, MaxNodes) /\ last' = Op("LazyVal", x, None, c.r)
    /\ prog' = prog

\* LazySum(*args)
NewSum ==
    /\ Len(heap) < MaxNodes
    /\ \E args \in Terms :
        LET c == LazySum_init(Machine, args)
        IN Install(c.m, MaxNodes) /\ last' = Op("LazySum", None, None, c.r)
    /\ prog' = prog

\* LazyProd(*args)
NewProd ==
    /\ Len(heap) < MaxNodes
    /\ \E args \in Terms :
        LET c == LazyProd_init(Machine, args)
        IN Install(c.m, MaxNodes) /\ last' = Op("LazyProd", None, None, c.r)
    /\ prog' = prog

\* LazyNeg(arg)
NewNeg ==
    /\ Len(heap) < MaxNodes
    /\ \E arg \in Operands :
        LET c == LazyNeg_init(Machine, arg)
        IN Install(c.m, MaxNodes) /\ last' = Op("LazyNeg", arg, None, c.r)
    /\ prog' = prog

\* LazyFuncFactory(func)(arg) and LazyFuncFactory(func)(x=arg)
NewFunc ==
    /\ Len(heap) < MaxNodes
    /\ \E func \in Funcs, arg \in Operands, kw \in BOOLEAN :
        LET c == IF kw
                 THEN LazyFunc_init(Machine, func, <<>>, <<[k |-> "x", v |-> arg]>>)
                 ELSE LazyFunc_init(Machine, func, <<arg>>, <<>>)
        IN Install(c.m, MaxNodes) /\ last' = Op("LazyFunc", arg, None, c.r)
    /\ prog' = prog

Construct == NewVal \/ NewSum \/ NewProd \/ NewNeg \/ NewFunc

\* a + b, a - b, a * b with a Lazy operand among the constructed nodes
Binary ==
    /\ Len(heap) <= MaxNodes
    /\ \E op \in {"+", "-", "*"}, a \in Operands, b \in Operands :
        /\ IsLazy(a) \/ IsLazy(b)
        /\ LET c == BinaryOp(Machine, op, a, b)
           IN Install(c.m, MaxNodes + OperatorNodes) /\ last' = Op(op, a, b, c.r)
    /\ prog' = prog

\* -a for one of the constructed nodes
Neg ==
    /\ Len(heap) <= MaxNodes
    /\ MayForce
    /\ \E a \in Lazies :
        LET c == neg(Machine, 0, a)
        IN Install(c.m, Len(heap)) /\ last' = Op("neg", a, None, c.r)
    /\ prog' = prog

\* a == b, a != b with a Lazy operand
Cmp ==
    /\ MayForce
    /\ \E op \in {"==", "!="}, a \in Operands, b \in Operands :
        /\ IsLazy(a) \/ IsLazy(b)
        /\ LET c == Compare(Machine, op, a, b)
           IN Install(c.m, Len(heap)) /\ last' = Op(op, a, b, c.r)
    /\ prog' = prog

\* repr(a)
Repr ==
    /\ MayForce
    /\ \E a \in Lazies :
        LET c == repr(Machine, a)
        IN Install(c.m, Len(heap)) /\ last' = Op("repr", a, None, c.r)
    /\ prog' = prog

\* a.eval()
Eval ==
    /\ MayForce
    /\ \E a \in Lazies :
        LET e == eval(Machine, a.v)
        IN Install(e.m, Len(heap)) /\ last' = Op("eval", a, None, e.r)
    /\ prog' = prog

\* A caller that constructs nodes and evaluates them.
Next == Construct \/ Eval
Spec == Init /\ [][Next]_vars

\* A caller that also compares them.
NextCmp == Construct \/ Eval \/ Cmp
SpecCmp == Init /\ [][NextCmp]_vars

\* A caller that also prints them.
NextRepr == Construct \/ Eval \/ Repr
SpecRepr == Init /\ [][NextRepr]_vars

\* A caller that composes the nodes it constructed.
NextCompose == Construct \/ Binary \/ Neg
SpecCompose == Init /\ [][NextCompose]_vars

\* ------------------------------------------------- the arithmetic of the tests
\* test_add and test_sub for any integers: n = LazyVal(x); r = n + y (or y + n,
\* n - y, y - n); r == z; r == LazyVal(z); r.eval()
ArithInts == -MaxAbs..MaxAbs
ArithKinds == {"n + y", "y + n", "n - y", "y - n"}

InitArith ==
    /\ Empty
    /\ \E k \in ArithKinds, x \in ArithInts, y \in ArithInts,
          z \in (-2 * MaxAbs)..(2 * MaxAbs) :
          prog = [pc |-> "new", kind |-> k, x |-> x, y |-> y, z |-> z,
                  n |-> None, r |-> None, e1 |-> None, e2 |-> None, v |-> None]

ArithNew ==
    /\ prog.pc = "new"
    /\ LET c == LazyVal_init(Machine, PyInt(prog.x))
       IN /\ Install(c.m, Len(c.m.heap))
          /\ last' = Op("LazyVal", PyInt(prog.x), None, c.r)
          /\ prog' = [prog EXCEPT !.pc = "compose", !.n = c.r]

ArithCompose ==
    /\ prog.pc = "compose"
    /\ LET op == IF prog.kind \in {"n + y", "y + n"} THEN "+" ELSE "-"
           a == IF prog.kind \in {"n + y", "n - y"} THEN prog.n ELSE PyInt(prog.y)
           b == IF prog.kind \in {"n + y", "n - y"} THEN PyInt(prog.y) ELSE prog.n
           c == BinaryOp(Machine, op, a, b)
       IN /\ Install(c.m, Len(c.m.heap))
          /\ last' = Op(op, a, b, c.r)
          /\ prog' = [prog EXCEPT !.pc = "eq_raw", !.r = c.r]

ArithEqRaw ==
    /\ prog.pc = "eq_raw"
    /\ LET c == Compare(Machine, "==", prog.r, PyInt(prog.z))
       IN /\ Install(c.m, Len(c.m.heap))
          /\ last' = Op("==", prog.r, PyInt(prog.z), c.r)
          /\ prog' = [prog EXCEPT !.pc = "eq_lazy", !.e1 = c.r]

ArithEqLazy ==
    /\ prog.pc = "eq_lazy"
    /\ LET w == LazyVal_init(Machine, PyInt(prog.z))
           c == Compare(w.m, "==", prog.r, w.r)
       IN /\ Install(c.m, Len(c.m.heap))
          /\ last' = Op("==", prog.r, w.r, c.r)
          /\ prog' = [prog EXCEPT !.pc = "eval", !.e2 = c.r]

ArithEval ==
    /\ prog.pc = "eval"
    /\ LET e == eval(Machine, prog.r.v)
       IN /\ Install(e.m, Len(e.m.heap))
          /\ last' = Op("eval", prog.r, None, e.r)
          /\ prog' = [prog EXCEPT !.pc = "done", !.v = e.r]

NextArith == ArithNew \/ ArithCompose \/ ArithEqRaw \/ ArithEqLazy \/ ArithEval
SpecArith == InitArith /\ [][NextArith]_vars

\* ------------------------------------------------------ chains of additions
\* (a + b) + c and a + (b + c) for three operands a, b, c, each a node of any
\* class, constructed on the raw value x.
OperandKinds == {"LazyVal", "LazyNeg", "LazySum", "LazyProd"} \cup Funcs

Operand(m, kind, x) ==
    CASE kind = "LazyVal" -> LazyVal_init(m, x)
      [] kind = "LazyNeg" -> LazyNeg_init(m, x)
      [] kind = "LazySum" -> LazySum_init(m, <<x>>)
      [] kind = "LazyProd" -> LazyProd_init(m, <<x>>)
      [] OTHER -> LazyFunc_init(m, kind, <<x>>, <<>>)

InitFlatten ==
    /\ Empty
    /\ prog \in {[pc |-> "operands", assoc |-> s, kinds |-> ks, x |-> x,
                  a |-> None, b |-> None, c |-> None, t |-> None, r |-> None] :
                    s \in {"(a + b) + c", "a + (b + c)"},
                    ks \in [1..3 -> OperandKinds], x \in Raws}

FlattenOperands ==
    /\ prog.pc = "operands"
    /\ LET a == Operand(Machine, prog.kinds[1], prog.x)
           b == Operand(a.m, prog.kinds[2], prog.x)
           c == Operand(b.m, prog.kinds[3], prog.x)
       IN /\ Install(c.m, Len(c.m.heap))
          /\ last' = Op(prog.kinds[3], prog.x, None, c.r)
          /\ prog' = [prog EXCEPT !.pc = "inner", !.a = a.r, !.b = b.r, !.c = c.r]

\* t = a + b, or t = b + c; an exception ends the program
FlattenInner ==
    /\ prog.pc = "inner"
    /\ LET a == IF prog.assoc = "(a + b) + c" THEN prog.a ELSE prog.b
           b == IF prog.assoc = "(a + b) + c" THEN prog.b ELSE prog.c
           t == BinaryOp(Machine, "+", a, b)
       IN /\ Install(t.m, Len(t.m.heap))
          /\ last' = Op("+", a, b, t.r)
          /\ prog' = IF IsExc(t.r)
                     THEN [prog EXCEPT !.pc = "done", !.t = t.r, !.r = t.r]
                     ELSE [prog EXCEPT !.pc = "outer", !.t = t.r]

\* r = t + c, or r = a + t
FlattenOuter ==
    /\ prog.pc = "outer"
    /\ LET a == IF prog.assoc = "(a + b) + c" THEN prog.t ELSE prog.a
           b == IF prog.assoc = "(a + b) + c" THEN prog.c ELSE prog.t
           r == BinaryOp(Machine, "+", a, b)
       IN /\ Install(r.m, Len(r.m.heap))
          /\ last' = Op("+", a, b, r.r)
          /\ prog' = [prog EXCEPT !.pc = "done", !.r = r.r]

NextFlatten == FlattenOperands \/ FlattenInner \/ FlattenOuter
SpecFlatten == InitFlatten /\ [][NextFlatten]_vars

\* ------------------------------------------------------------------- claims
IsSet(i) == ~IsNotEvaluatedType(heap[i]._value)
Kind(i) == heap[i].kind

ArgsResolved(i) ==
    LET node == heap[i]
        got == fargs[i]
    IN /\ Len(got.args) = Len(node._args)
       /\ Len(got.kwargs) = Len(node._kwargs)
       /\ \A k \in 1..Len(node._args) :
             IF IsLazy(node._args[k])
             THEN got.args[k] \in rets[node._args[k].v]
             ELSE got.args[k] = node._args[k]
       /\ \A k \in 1..Len(node._kwargs) :
             /\ got.kwargs[k].k = node._kwargs[k].k
             /\ IF IsLazy(node._kwargs[k].v)
                THEN got.kwargs[k].v \in rets[node._kwargs[k].v.v]
                ELSE got.kwargs[k].v = node._kwargs[k].v

\* C4 as stated, its last part: once eval() has been called on a LazyFunc node,
\* the wrapped callable has run exactly once whatever the number of calls.
C4_CallableRunsExactlyOnce ==
    \A i \in Nodes :
        Kind(i) = "LazyFunc" /\ calls[i] >= 1 => fcalls[i] = 1

\* C4 as amended: the wrapped callable is not invoked by the construction of
\* the node, only by a calculate() of it; it is invoked with every argument
\* resolved, a node to the value its eval() returned and a raw one to itself;
\* and once the node's cache holds a value the callable has run exactly once.
C4_CallableRunsOnEval ==
    \A i \in Nodes :
        Kind(i) = "LazyFunc" =>
            /\ fcalls[i] <= calls[i]
            /\ fcalls[i] > 0 => ArgsResolved(i)
            /\ IsSet(i) =>
                  /\ fcalls[i] = 1
                  /\ heap[i]._value = Call(heap[i].func, fargs[i].args, fargs[i].kwargs)

\* An evaluated LazyFunc node whose argument is another LazyFunc node.
C4_Witness ==
    \E i \in Nodes, j \in Nodes :
        /\ Kind(i) = "LazyFunc" /\ Kind(j) = "LazyFunc"
        /\ heap[i]._args = <<Lazy(j)>>
        /\ IsSet(i) /\ fcalls[i] = 1 /\ fcalls[j] = 1
        /\ fargs[i].args = <<heap[j]._value>>
        /\ last.op = "eval"

\* C5: when an eval() raises, what it raises is the exception raised where the
\* calculation failed (for a wrapped callable: the one it raises on the
\* arguments it was given), and the node's cache stays unset.
C5_ErrorPropagates ==
    last.op = "eval" /\ IsExc(last.r) =>
        /\ ~IsSet(last.a.v)
        /\ raised.by \in Nodes
        /\ last.r = Exc(raised.cls)
        /\ ~IsSet(raised.by)
        /\ Kind(raised.by) = "LazyFunc" =>
              Call(heap[raised.by].func, fargs[raised.by].args,
                   fargs[raised.by].kwargs) = last.r

\* An eval() of a parent node that raised the ValueError of the callable
\* wrapped by its child.
C5_Witness ==
    /\ last.op = "eval" /\ last.r = Exc("ValueError")
    /\ raised.by # last.a.v
    /\ Kind(raised.by) = "LazyFunc"
    /\ heap[raised.by].func = "checked"
    /\ ~IsSet(last.a.v)

\* C6: n == n is True and n != n is False, and the comparison runs no
\* calculate() and leaves every cache as it was.
C6_SelfComparison ==
    [][last'.op \in {"==", "!="} /\ last'.a = last'.b =>
          /\ last'.r = Bool(last'.op = "==")
          /\ heap' = heap
          /\ calls' = calls
          /\ fcalls' = fcalls]_vars

\* n == n answered True for an unevaluated node whose callable raises.
C6_Witness ==
    /\ last.op = "==" /\ last.a = last.b /\ IsLazy(last.a)
    /\ last.r = Bool(TRUE)
    /\ Kind(last.a.v) = "LazyFunc"
    /\ heap[last.a.v].func = "checked"
    /\ heap[last.a.v]._args = <<PyInt(-1)>>
    /\ ~IsSet(last.a.v)
    /\ calls[last.a.v] = 0

\* C8: repr() of a node runs no calculate() and leaves every cache as it was.
C8_ReprDoesNotForce ==
    [][last'.op = "repr" => heap' = heap /\ calls' = calls]_vars

\* C3: a + b, a * b and -a, when they return, leave every existing node as it
\* was (its slots, its cache) and return a newly constructed node.
C3_CompositionIsPure ==
    [][last'.op \in {"+", "*", "neg"} /\ ~IsExc(last'.r) =>
          /\ \A i \in Nodes : heap'[i] = heap[i]
          /\ IsLazy(last'.r)
          /\ last'.r.v > Len(heap)]_vars

\* C9: a + b for two nodes, neither of them a LazySum, is a new LazySum whose
\* terms are a and b.
C9_AddOfTwoNodes ==
    /\ last.op = "+" /\ IsLazy(last.a) /\ IsLazy(last.b)
    /\ Kind(last.a.v) # "LazySum" /\ Kind(last.b.v) # "LazySum"
    => /\ IsLazy(last.r)
       /\ Kind(last.r.v) = "LazySum"
       /\ heap[last.r.v]._terms = <<last.a, last.b>>

AllNodes(objs) == \A k \in 1..Len(objs) : IsLazy(objs[k]) /\ objs[k].v \in Nodes

\* C10 as stated: every stored child of a LazySum, a LazyProd and a LazyFunc
\* node is a node.
C10_ChildrenAreNodes ==
    \A i \in Nodes :
        /\ Kind(i) \in {"LazySum", "LazyProd"} => AllNodes(heap[i]._terms)
        /\ Kind(i) = "LazyFunc" =>
              /\ AllNodes(heap[i]._args)
              /\ \A k \in 1..Len(heap[i]._kwargs) : IsLazy(heap[i]._kwargs[k].v)

\* C10 as amended: every stored term of a LazySum and of a LazyProd is a node
\* (a raw argument is wrapped in a LazyVal holding it); a LazyFunc node stores
\* its arguments as they were passed.
C10_TermsAreNodes ==
    \A i \in Nodes :
        Kind(i) \in {"LazySum", "LazyProd"} => AllNodes(heap[i]._terms)

\* A LazyProd built by raw * node: its first term is the LazyVal wrapping the
\* raw operand.
C10_Witness ==
    /\ last.op = "*" /\ ~IsLazy(last.a) /\ IsLazy(last.r)
    /\ Kind(last.r.v) = "LazyProd"
    /\ Len(heap[last.r.v]._terms) = 2
    /\ IsLazy(heap[last.r.v]._terms[1])
    /\ heap[heap[last.r.v]._terms[1].v] =
          Slots("LazyVal", last.a, <<>>, None, "", <<>>, <<>>)
\* C2: (a + b) + c and a + (b + c), for operands none of which is a LazySum
\* itself and when no addition raises, are a LazySum whose terms are a, b and c
\* in that order, so none of its terms is a LazySum.
C2_ChainsAreFlat ==
    /\ prog.pc = "done"
    /\ \A k \in 1..3 : prog.kinds[k] # "LazySum"
    /\ ~IsExc(prog.r)
    => /\ IsLazy(prog.r)
       /\ Kind(prog.r.v) = "LazySum"
       /\ heap[prog.r.v]._terms = <<prog.a, prog.b, prog.c>>
       /\ \A k \in 1..Len(heap[prog.r.v]._terms) :
             Kind(heap[prog.r.v]._terms[k].v) # "LazySum"

Expected ==
    CASE prog.kind = "n + y" -> prog.x + prog.y
      [] prog.kind = "y + n" -> prog.y + prog.x
      [] prog.kind = "n - y" -> prog.x - prog.y
      [] OTHER -> prog.y - prog.x

\* C7: LazyVal(x) + y, y + LazyVal(x), LazyVal(x) - y and y - LazyVal(x)
\* evaluate to x + y, y + x, x - y and y - x, and == answers True against that
\* integer and against a LazyVal of it (and False against any other integer).
C7_ArithmeticOfTests ==
    prog.pc = "done" =>
        /\ prog.v = PyInt(Expected)
        /\ prog.e1 = Bool(prog.z = Expected)
        /\ prog.e2 = Bool(prog.z = Expected)

\* test_sub's  1 - LazyVal(-1) == 2
C7_Witness ==
    /\ prog.pc = "done" /\ prog.kind = "y - n"
    /\ prog.x = -1 /\ prog.y = 1 /\ prog.z = 2
    /\ prog.v = PyInt(2)
    /\ prog.e1 = Bool(TRUE) /\ prog.e2 = Bool(TRUE)
    /\ Kind(heap[prog.r.v]._terms[2].v) = "LazyNeg"
====
